---- MODULE Spec2Model ----
(***************************************************************************)
(* Batch scheduling and publishing pipeline of the Facebook uploader       *)
(* (UploaderPage) and the cross-page poster (CrossPostPage).               *)
(*                                                                         *)
(* Time is counted in whole minutes of local wall-clock time since local   *)
(* midnight of day 0 (no daylight-saving changes).  A JavaScript Date is   *)
(* one such integer.  An async handler is cut at its awaits on timers and  *)
(* network calls: every action is the synchronous code between two awaits. *)
(***************************************************************************)
EXTENDS Integers, Sequences, FiniteSets, TLC

VARIABLES
    page,               \* the mounted route: "uploader" or "crosspost"
    now,                \* Date.now(), in minutes
    tzOffset,           \* local time minus UTC, in minutes
    loggedIn,           \* accessToken && pages.length > 0 (the scheduler UI is rendered)
    activePage,         \* UploaderPage: activePage (NoPage = null)
    sourcePage,         \* CrossPostPage: sourcePage
    destinationPage,    \* CrossPostPage: destinationPage
    schedulerSettings,  \* startDate, startTime, endTime, interval, smartScheduleEnabled
    files,              \* UploaderPage: schedulerSettings.files (file names)
    sourcePosts,        \* CrossPostPage: sourcePosts (post ids)
    selectedPostIds,    \* CrossPostPage: selectedPostIds
    crossPostHistory,   \* CrossPostPage: crossPostHistory (and its localStorage copy)
    isScheduling,
    isPaused,           \* the isPaused state
    isPausedRef,        \* isPausedRef.current
    isTesting,
    cancelled,          \* schedulerCancelToken.current.cancelled
    schedulingProgress, \* [current, total]
    schedulingLog,      \* newest entry first
    run,                \* the suspended handleSchedulingProcess invocation (its locals and position)
    test,               \* the suspended handleTestUpload invocation
    fbPosts,            \* Graph API side: (post id, page id) pairs whose feed post was created
    logoutCalls,        \* number of handleLogout calls made by the current run
    uploads,            \* queue indices the current run called uploadPost / uploadCrossPost for
    clicks,             \* user actions so far
    testUploads,        \* test uploads started so far
    allocPc,            \* allocator harness: "ready" or "done"
    alloc               \* getSmartSchedule: insights, the random minutes, scheduleDates before the sort

vars == <<page, now, tzOffset, loggedIn, activePage, sourcePage, destinationPage,
          schedulerSettings, files, sourcePosts, selectedPostIds, crossPostHistory,
          isScheduling, isPaused, isPausedRef, isTesting, cancelled,
          schedulingProgress, schedulingLog, run, test, fbPosts, logoutCalls, uploads, clicks, testUploads, allocPc, alloc>>

-----------------------------------------------------------------------------
(* Bounds of the model *)

MaxFiles == 2       \* longest queue
MaxTicks == 1       \* clock advances during a behaviour
MaxClicks == 3      \* user actions during a behaviour
MaxTests == 1       \* test uploads during a behaviour
MaxTestFiles == 1   \* longest queue of a behaviour with a test upload
MaxCount == 7       \* longest queue the allocator is applied to
Today == 3          \* calendar day on which the page is opened

(* Program constants *)

LeadMinutes == 10           \* 600000 ms
MinutesPerDay == 1440       \* setDate(getDate() + 1)
MinutesPerHour == 60        \* setHours / getHours
TopHours == 5               \* hoursWithFollowers[i % 5]
PerDay == 3                 \* i % 3 === 0

NoPage == "null"

-----------------------------------------------------------------------------
(* JavaScript Date, local fields *)

getHours(t) == (t % MinutesPerDay) \div MinutesPerHour

getMinutes(t) == t % MinutesPerHour

\* Date.prototype.setHours(h, m, 0, 0): same local calendar day, new time of day
setHours(t, h, m) == (t \div MinutesPerDay) * MinutesPerDay + h * MinutesPerHour + m

\* Date.prototype.setMinutes(m): minutes outside 0..59 carry into the hour and the day
setMinutes(t, m) == t - getMinutes(t) + m

\* d.setDate(d.getDate() + 1)
addDay(t) == t + MinutesPerDay

\* new Date('YYYY-MM-DD'): midnight UTC of that date, seen in local time
parseDate(day, tz) == day * MinutesPerDay + tz

-----------------------------------------------------------------------------
(* Manual schedule: the loop of handleSchedulingProcess *)

PastEnd(t, endT) ==
    \/ getHours(t) > endT[1]
    \/ (getHours(t) = endT[1] /\ getMinutes(t) > endT[2])

\* the rollover resets the time of day and forgets setDate(getDate() + 1)
ManualAdvance_NoNextDay(t, s) ==
    LET next == setMinutes(t, getMinutes(t) + s.interval)
    IN  IF PastEnd(next, s.endTime)
        THEN setHours(next, s.startTime[1], s.startTime[2])
        ELSE next

ManualAdvance(t, s) ==
    LET next == setMinutes(t, getMinutes(t) + s.interval)
    IN  IF PastEnd(next, s.endTime)
        THEN setHours(addDay(next), s.startTime[1], s.startTime[2])
        ELSE next

ManualStart(s, tz) == setHours(parseDate(s.startDate, tz), s.startTime[1], s.startTime[2])

RECURSIVE ManualLoop(_, _, _, _)
ManualLoop(k, n, t, s) ==
    IF k >= n THEN <<>>
    ELSE <<t>> \o ManualLoop(k + 1, n, ManualAdvance(t, s), s)

ManualSchedule(s, n, tz) == ManualLoop(0, n, ManualStart(s, tz), s)

-----------------------------------------------------------------------------
(* Smart schedule: fetchPageInsights and getSmartSchedule *)

\* the mock followers-per-hour vector, hour h at index h + 1
fetchPageInsights ==
    <<100, 80, 70, 60, 50, 60, 80, 120, 150, 200, 250, 300,
      320, 310, 280, 260, 300, 350, 450, 500, 520, 480, 400, 250>>

\* number of hours that the stable descending sort places before hour h
RankOf(w, h) ==
    Cardinality({g \in 0..(Len(w) - 1) :
        \/ w[g + 1] > w[h + 1]
        \/ (w[g + 1] = w[h + 1] /\ g < h)})

\* hoursWithFollowers after sort((a, b) => b.followers - a.followers), hours only
hoursWithFollowers(w) ==
    [k \in 1..Len(w) |-> CHOOSE h \in 0..(Len(w) - 1) : RankOf(w, h) = k - 1]

\* the candidate of loop index i; currentDate has been advanced by the caller
\* getSmartSchedule before it is called with anything but the mock
NoAlloc == [insights |-> fetchPageInsights, minutes |-> <<>>, scheduleDates |-> <<>>]

\* the hours of the insights in sorted order, as getSmartSchedule holds them
insightHours == hoursWithFollowers(fetchPageInsights)

\* the candidate is pushed without the comparison with Date.now() + 600000
SmartCandidate_NoCorrection(hours, i, currentDate, minute, nowT) ==
    setHours(currentDate, hours[(i % TopHours) + 1], minute)

\* the hour is taken at index i % 3, the size of a day's group
SmartCandidate_GroupIndex(hours, i, currentDate, minute, nowT) ==
    LET postDate == setHours(currentDate, hours[(i % PerDay) + 1], minute)
    IN  IF postDate < nowT + LeadMinutes THEN addDay(postDate) ELSE postDate

SmartCandidate(hours, i, currentDate, minute, nowT) ==
    LET postDate == setHours(currentDate, hours[(i % TopHours) + 1], minute)
    IN  IF postDate < nowT + LeadMinutes THEN addDay(postDate) ELSE postDate

RECURSIVE SmartLoop(_, _, _, _, _, _)
SmartLoop(hours, i, n, currentDate, minutes, nowT) ==
    IF i >= n THEN <<>>
    ELSE LET d == IF i > 0 /\ i % PerDay = 0 THEN addDay(currentDate) ELSE currentDate
         IN  <<SmartCandidate(hours, i, d, minutes[i + 1], nowT)>>
                 \o SmartLoop(hours, i + 1, n, d, minutes, nowT)

\* the candidates are returned in the order of their creation
getSmartSchedule_NoSort(hours, n, minutes, nowT) ==
    SmartLoop(hours, 0, n, addDay(nowT), minutes, nowT)

\* hours is the sorted hoursWithFollowers of the insights; minutes[i + 1] is the value
\* Math.floor(Math.random() * 60) takes at index i
getSmartSchedule(hours, n, minutes, nowT) ==
    SortSeq(SmartLoop(hours, 0, n, addDay(nowT), minutes, nowT), LAMBDA a, b : a < b)

-----------------------------------------------------------------------------
(* Error messages and their classification *)

UpperCase == <<"A","B","C","D","E","F","G","H","I","J","K","L","M","N","O","P","Q","R","S","T","U","V","W","X","Y","Z">>
LowerCase == <<"a","b","c","d","e","f","g","h","i","j","k","l","m","n","o","p","q","r","s","t","u","v","w","x","y","z">>

LowerChar(ch) ==
    IF \E k \in 1..Len(UpperCase) : UpperCase[k] = ch
    THEN LowerCase[CHOOSE k \in 1..Len(UpperCase) : UpperCase[k] = ch]
    ELSE ch

toLowerCase(s) == [k \in 1..Len(s) |-> LowerChar(s[k])]

includes(s, sub) ==
    \E k \in 0..(Len(s) - Len(sub)) : SubSeq(s, k + 1, k + Len(sub)) = sub

\* the message is searched as it is, without toLowerCase()
IsAuthError_CaseSensitive(msg) ==
    \/ includes(msg, <<"s","e","s","s","i","o","n">>)
    \/ includes(msg, <<"t","o","k","e","n">>)
    \/ includes(msg, <<"o","a","u","t","h">>)

\* message.includes('session') || message.includes('token') || message.includes('oauth')
IsAuthError(msg) ==
    LET message == toLowerCase(msg)
    IN  \/ includes(message, <<"s","e","s","s","i","o","n">>)
        \/ includes(message, <<"t","o","k","e","n">>)
        \/ includes(message, <<"o","a","u","t","h">>)

MediaFailedPrefix == <<"M","e","d","i","a"," ","u","p","l","o","a","d"," ","f","a","i","l","e","d",":"," ">>
PostFailedPrefix == <<"P","o","s","t"," ","c","r","e","a","t","i","o","n"," ","f","a","i","l","e","d",":"," ">>
NoMediaIdMessage == <<"M","e","d","i","a"," ","u","p","l","o","a","d","e","d",","," ","b","u","t"," ","d","i","d"," ","n","o","t"," ","r","e","c","e","i","v","e"," ","a"," ","m","e","d","i","a"," ","I","D"," ","f","r","o","m"," ","F","a","c","e","b","o","o","k",".">>

\* error.message values the Graph API answers with in this model
MsgOAuth == <<"I","n","v","a","l","i","d"," ","O","A","u","t","h"," ","2",".","0">>
MsgSession == <<"S","e","s","s","i","o","n"," ","e","x","p","i","r","e","d">>
MsgToken == <<"B","A","D"," ","T","O","K","E","N">>
MsgLimit == <<"R","a","t","e"," ","l","i","m","i","t">>
ErrorMessages == {MsgOAuth, MsgSession, MsgToken, MsgLimit}

-----------------------------------------------------------------------------
(* The log *)

\* an entry without its timestamp: message is the fixed part of the message text,
\* detail the e.message an error entry quotes
Entry(f, s, m) == [file |-> f, status |-> s, message |-> m, detail |-> <<>>]

ErrorEntry(f, m, d) == [file |-> f, status |-> "error", message |-> m, detail |-> d]

\* setSchedulingLog(prev => [{ ...entry, timestamp }, ...prev])
addLog(log, entry) == <<entry>> \o log

-----------------------------------------------------------------------------
(* The suspended handleSchedulingProcess invocation *)

IdleRun ==
    [pc |-> "idle", i |-> 0, queue |-> <<>>, scheduleTimes |-> <<>>, scheduleTime |-> 0,
     history |-> {}, dest |-> NoPage, slot |-> 0, dispatchedAt |-> 0]

InFlight == {"enhance", "media", "post"}

\* everything a continuation of the handler can write
Ctx ==
    [log |-> schedulingLog, progress |-> schedulingProgress, run |-> run,
     isScheduling |-> isScheduling, isPaused |-> isPaused, loggedIn |-> loggedIn,
     activePage |-> activePage, sourcePage |-> sourcePage,
     destinationPage |-> destinationPage, crossPostHistory |-> crossPostHistory,
     fbPosts |-> fbPosts, logoutCalls |-> logoutCalls, uploads |-> uploads,
     cancelled |-> cancelled]

\* the writes of one synchronous stretch, then React's render and the isPausedRef effect
Commit(c) ==
    /\ schedulingLog' = c.log
    /\ schedulingProgress' = c.progress
    /\ run' = c.run
    /\ isScheduling' = c.isScheduling
    /\ isPaused' = c.isPaused
    /\ isPausedRef' = c.isPaused
    /\ loggedIn' = c.loggedIn
    /\ activePage' = c.activePage
    /\ sourcePage' = c.sourcePage
    /\ destinationPage' = c.destinationPage
    /\ crossPostHistory' = c.crossPostHistory
    /\ fbPosts' = c.fbPosts
    /\ logoutCalls' = c.logoutCalls
    /\ uploads' = c.uploads
    /\ cancelled' = c.cancelled

Log(c, entry) == [c EXCEPT !.log = addLog(@, entry)]

-----------------------------------------------------------------------------
(* UploaderPage *)

\* the logout also empties the log
handleLogoutU_ClearsLog(c) == [c EXCEPT !.loggedIn = FALSE, !.activePage = NoPage, !.log = <<>>]

handleLogoutU(c) == [c EXCEPT !.loggedIn = FALSE, !.activePage = NoPage]

\* uploadPost up to its first await
UploadPostStart(c, f) == Log(c, Entry(f, "info", "Generating AI caption..."))

\* uploadPost from the caption to the media request
UploadPostCaptionReady(c, f) ==
    Log(Log(c, Entry(f, "info", "Caption ready")),
        Entry(f, "info", "Uploading media file to Facebook..."))

\* uploadPost from the media answer to the feed request
UploadPostMediaUploaded(c, f, scheduled) ==
    Log(Log(c, Entry(f, "info", "Media uploaded successfully")),
        Entry(f, "info", IF scheduled THEN "Scheduling post for" ELSE "Publishing post immediately..."))

\* uploadPost after the feed answer
UploadPostSuccess(c, f, scheduled) ==
    Log(c, Entry(f, "success", IF scheduled THEN "Scheduled successfully!" ELSE "Posted successfully!"))

\* the statements after the item loop
FinishU(c) ==
    [Log(c, Entry("", "info", "Scheduling complete."))
        EXCEPT !.isScheduling = FALSE, !.isPaused = FALSE, !.run = IdleRun]

\* the progress counter is set to the loop index
DispatchU_ProgressIsIndex(c, i) ==
    LET f == c.run.queue[i + 1]
        t == c.run.scheduleTimes[i + 1]
        late == t < now + LeadMinutes
        eff == IF late THEN addDay(t) ELSE t
        c1 == [c EXCEPT !.progress = [current |-> i, total |-> Len(c.run.queue)],
                        !.run.scheduleTimes[i + 1] = eff]
        c2 == IF late THEN Log(c1, Entry(f, "info", "Auto-adjusted")) ELSE c1
    IN  [UploadPostStart(c2, f)
            EXCEPT !.run.pc = "enhance", !.run.i = i, !.run.slot = eff,
                   !.run.dispatchedAt = now, !.uploads = Append(@, i)]

\* loop body from `const currentFile` to the call of uploadPost
DispatchU(c, i) ==
    LET f == c.run.queue[i + 1]
        t == c.run.scheduleTimes[i + 1]
        late == t < now + LeadMinutes
        eff == IF late THEN addDay(t) ELSE t
        c1 == [c EXCEPT !.progress = [current |-> i + 1, total |-> Len(c.run.queue)],
                        !.run.scheduleTimes[i + 1] = eff]
        c2 == IF late THEN Log(c1, Entry(f, "info", "Auto-adjusted")) ELSE c1
    IN  [UploadPostStart(c2, f)
            EXCEPT !.run.pc = "enhance", !.run.i = i, !.run.slot = eff,
                   !.run.dispatchedAt = now, !.uploads = Append(@, i)]

\* the pause wait of index i, entered or resumed; ref is isPausedRef.current
PauseWaitU(c, i, ref) ==
    IF ref /\ ~c.cancelled
    THEN [c EXCEPT !.run.pc = "sleep", !.run.i = i]
    ELSE DispatchU(c, i)

\* the loop forgets to look at the cancel token
LoopU_IgnoreCancel(c, i, ref) ==
    IF i >= Len(c.run.queue) THEN FinishU(c)
    ELSE PauseWaitU(c, i, ref)

\* top of the item loop at index i
LoopU(c, i, ref) ==
    IF i >= Len(c.run.queue) THEN FinishU(c)
    ELSE IF c.cancelled
         THEN FinishU(Log(c, Entry("", "info", "Scheduling cancelled by user.")))
         ELSE PauseWaitU(c, i, ref)

\* every failure ends the run
CatchU_AlwaysBreak(c, i, msg) ==
    FinishU(Log(c, ErrorEntry(c.run.queue[i + 1], "Failed", msg)))

\* a failure that is not fatal submits the same item again
CatchU_Retry(c, i, msg) ==
    LET c1 == Log(c, ErrorEntry(c.run.queue[i + 1], "Failed", msg))
    IN  IF IsAuthError(msg)
        THEN FinishU([handleLogoutU(c1) EXCEPT !.logoutCalls = @ + 1])
        ELSE LoopU(c1, i, isPausedRef)

\* the catch block of the item loop
CatchU(c, i, msg) ==
    LET c1 == Log(c, ErrorEntry(c.run.queue[i + 1], "Failed", msg))
    IN  IF IsAuthError(msg)
        THEN FinishU([handleLogoutU(c1) EXCEPT !.logoutCalls = @ + 1])
        ELSE LoopU(c1, i + 1, isPausedRef)

-----------------------------------------------------------------------------
(* CrossPostPage *)

handleLogoutX(c) ==
    [c EXCEPT !.loggedIn = FALSE, !.sourcePage = NoPage, !.destinationPage = NoPage]

\* `${post.id}|${destinationPage.id}`
historyKey(postId, pageId) == <<postId, pageId>>

\* uploadCrossPost up to its first await
UploadCrossPostStart(c, p) == Log(c, Entry(p, "info", "Enhancing post..."))

\* uploadCrossPost from the enhancement to the media request; the entry that tells
\* whether the styled image or the original URL is uploaded is one tag here
UploadCrossPostEnhanced(c, p) ==
    Log(Log(c, Entry(p, "info", "Caption ready")), Entry(p, "info", "Uploading image"))

\* the history key is recorded as soon as the media is uploaded, before the feed request
UploadCrossPostMediaUploaded_RecordsKey(c, p) ==
    Log(Log([c EXCEPT !.crossPostHistory = @ \cup {historyKey(p, c.run.dest)}],
            Entry(p, "info", "Media uploaded")), Entry(p, "info", "Scheduling for"))

\* uploadCrossPost from the media answer to the feed request
UploadCrossPostMediaUploaded(c, p) ==
    Log(Log(c, Entry(p, "info", "Media uploaded")), Entry(p, "info", "Scheduling for"))

\* uploadCrossPost after the feed answer: history, localStorage, success entry
UploadCrossPostSuccess(c, p) ==
    Log([c EXCEPT !.crossPostHistory = @ \cup {historyKey(p, c.run.dest)}],
        Entry(p, "success", "Scheduled successfully!"))

\* the statements after the item loop
FinishX(c) == [c EXCEPT !.isScheduling = FALSE, !.run = IdleRun]

\* loop body from `let finalScheduleTime` to the call of uploadCrossPost
DispatchX(c, i) ==
    LET p == c.run.queue[i + 1]
        t == c.run.scheduleTime
        final == IF t < now + LeadMinutes THEN addDay(t) ELSE t
    IN  [UploadCrossPostStart(c, p)
            EXCEPT !.run.pc = "enhance", !.run.i = i, !.run.slot = final,
                   !.run.dispatchedAt = now, !.uploads = Append(@, i)]

RECURSIVE LoopX(_, _, _)
\* the progress counter is set after the duplicate check: a skipped item is not counted
BodyX_ProgressAfterSkip(c, i, ref) ==
    LET p == c.run.queue[i + 1]
        c1 == [c EXCEPT !.progress = [current |-> i + 1, total |-> Len(c.run.queue)]]
    IN  IF historyKey(p, c.run.dest) \in c.run.history
        THEN LoopX(Log(c, Entry(p, "info", "Skipped")), i + 1, ref)
        ELSE DispatchX(c1, i)

\* loop body from `const currentPost` on; ref is isPausedRef.current
BodyX(c, i, ref) ==
    LET p == c.run.queue[i + 1]
        c1 == [c EXCEPT !.progress = [current |-> i + 1, total |-> Len(c.run.queue)]]
    IN  IF historyKey(p, c.run.dest) \in c.run.history
        THEN LoopX(Log(c1, Entry(p, "info", "Skipped")), i + 1, ref)
        ELSE DispatchX(c1, i)

\* the pause wait of index i, entered or resumed
PauseWaitX(c, i, ref) ==
    IF ref
    THEN [c EXCEPT !.run.pc = "sleep", !.run.i = i]
    ELSE BodyX(c, i, ref)

\* top of the item loop at index i
LoopX(c, i, ref) ==
    IF i >= Len(c.run.queue) THEN FinishX(c)
    ELSE IF c.cancelled
         THEN FinishX(Log(c, Entry("", "info", "Scheduling cancelled by user.")))
         ELSE PauseWaitX(c, i, ref)

\* end of the loop body: the running clock moves to the next slot
NextItemX(c, i) ==
    LoopX([c EXCEPT !.run.scheduleTime = ManualAdvance(@, schedulerSettings)],
          i + 1, isPausedRef)

\* the catch block of the item loop
CatchX(c, i, msg) ==
    LET c1 == Log(c, ErrorEntry(c.run.queue[i + 1], "Failed", msg))
    IN  IF IsAuthError(msg)
        THEN FinishX([handleLogoutX(c1) EXCEPT !.logoutCalls = @ + 1])
        ELSE NextItemX(c1, i)

\* sourcePosts.filter(p => selectedPostIds.has(p.id))
RECURSIVE filterSelected(_, _)
filterSelected(posts, selected) ==
    IF posts = <<>> THEN <<>>
    ELSE (IF Head(posts) \in selected THEN <<Head(posts)>> ELSE <<>>)
             \o filterSelected(Tail(posts), selected)

-----------------------------------------------------------------------------
(* Inputs of the model *)

NowInit == Today * MinutesPerDay + 8 * MinutesPerHour + 55

TickMinutes == MinutesPerDay

FileNames == <<"f1", "f2", "f3", "f4">>

PostNames == <<"p1", "p2", "p3", "p4">>

PostIds == {PostNames[1], PostNames[2]}

RandomMinutes == {0, 59}

\* the random minutes of one run of n items
RunMinutes(n) == {[k \in 1..n |-> m] : m \in RandomMinutes}

Settings(dates, starts, ends, intervals, smarts) ==
    [startDate : dates, startTime : starts, endTime : ends, interval : intervals,
     smartScheduleEnabled : smarts]

\* configurations of the runs
RunSettings ==
    Settings({Today - 2, Today + 1}, {<<9, 0>>}, {<<22, 0>>}, {60}, {FALSE})
        \cup Settings({Today + 1}, {<<9, 0>>}, {<<22, 0>>}, {60}, {TRUE})

SeqsUpTo(S, n) == UNION {[1..k -> S] : k \in 0..n}

\* what no handler writes
Fixed == UNCHANGED <<page, tzOffset, schedulerSettings, files, sourcePosts, selectedPostIds, allocPc, alloc>>

NoTest == UNCHANGED <<isTesting, test, testUploads>>

\* a user action; the promise of getSmartSchedule settles in a microtask, before any
\* further event is handled
Click == clicks < MaxClicks /\ run.pc # "generate" /\ clicks' = clicks + 1

\* a timer or a network answer
Callback == UNCHANGED clicks

-----------------------------------------------------------------------------
(* UploaderPage: handlers *)

\* the start of a run leaves the cancel token as the last run left it
BeginRunU_KeepsCancel ==
    [Ctx EXCEPT !.isScheduling = TRUE, !.isPaused = FALSE,
                !.log = <<>>, !.progress = [current |-> 0, total |-> Len(files)],
                !.logoutCalls = 0, !.uploads = <<>>,
                !.run = [IdleRun EXCEPT !.queue = files, !.dest = activePage]]

\* handleSchedulingProcess from setIsScheduling(true) to `let scheduleTimes`
BeginRunU ==
    [Ctx EXCEPT !.isScheduling = TRUE, !.isPaused = FALSE, !.cancelled = FALSE,
                !.log = <<>>, !.progress = [current |-> 0, total |-> Len(files)],
                !.logoutCalls = 0, !.uploads = <<>>,
                !.run = [IdleRun EXCEPT !.queue = files, !.dest = activePage]]

\* the manual branch and the entry into the item loop; ref is the value of
\* isPausedRef.current the loop reads first
StartManualU(ref) ==
    LET c1 == Log(BeginRunU, Entry("", "info", "Using Manual Schedule"))
    IN  LoopU([c1 EXCEPT !.run.scheduleTimes =
                   ManualSchedule(schedulerSettings, Len(files), tzOffset)], 0, ref)

\* the smart branch up to `await getSmartSchedule(...)`, which awaits fetchPageInsights
StartSmartU ==
    [Log(Log(BeginRunU, Entry("", "info", "Using Smart Schedule")),
         Entry("", "info", "Analyzing page engagement"))
        EXCEPT !.run.pc = "generate"]

\* only the queue is validated
ValidationErrorU_FilesOnly ==
    IF files = <<>> THEN "No files selected to schedule." ELSE ""

\* the two early returns of handleSchedulingProcess: the message logged, "" when valid
ValidationErrorU ==
    IF files = <<>> THEN "No files selected to schedule."
    ELSE IF activePage = NoPage THEN "No Facebook Page selected."
    ELSE ""

\* the handler without its `if (isScheduling)` branch: every toggle starts a run
HandleSchedulingProcessU_NoRunningCheck ==
    /\ Click
    /\ page = "uploader"
    /\ loggedIn
    /\ IF ValidationErrorU # ""
       THEN Commit(Log(Ctx, Entry("", "error", ValidationErrorU)))
       ELSE IF schedulerSettings.smartScheduleEnabled
       THEN Commit(StartSmartU)
       ELSE Commit(StartManualU(isPausedRef))
    /\ UNCHANGED now
    /\ NoTest
    /\ Fixed

HandleSchedulingProcessU ==
    /\ Click
    /\ page = "uploader"
    /\ loggedIn
    /\ IF isScheduling
       THEN Commit(Log([Ctx EXCEPT !.cancelled = TRUE],
                       Entry("", "info", "Stopping scheduling process...")))
       ELSE IF ValidationErrorU # ""
       THEN Commit(Log(Ctx, Entry("", "error", ValidationErrorU)))
       ELSE IF schedulerSettings.smartScheduleEnabled
       THEN Commit(StartSmartU)
       ELSE Commit(StartManualU(isPausedRef))
    /\ UNCHANGED now
    /\ NoTest
    /\ Fixed

\* getSmartSchedule resolves: the schedule is logged and the item loop is entered
GenerateResolvedU ==
    /\ Callback
    /\ page = "uploader"
    /\ run.pc = "generate"
    /\ \E minutes \in RunMinutes(Len(run.queue)) :
          LET times == getSmartSchedule(insightHours, Len(run.queue), minutes, now)
              c1 == Log(Ctx, Entry("", "info", "Smart Schedule generated"))
          IN  Commit(LoopU([c1 EXCEPT !.run.scheduleTimes = times], 0, isPausedRef))
    /\ UNCHANGED now
    /\ NoTest
    /\ Fixed

\* getSmartSchedule rejects: the catch block around the generation
GenerateRejectedU ==
    /\ Callback
    /\ page = "uploader"
    /\ run.pc = "generate"
    /\ Commit([Log(Ctx, ErrorEntry("", "Schedule generation failed", MsgToken))
                  EXCEPT !.isScheduling = FALSE, !.run = IdleRun])
    /\ UNCHANGED now
    /\ NoTest
    /\ Fixed

\* the catch and finally blocks of handleTestUpload
TestCatch(c, msg) ==
    IF IsAuthError(msg)
    THEN handleLogoutU(c)
    ELSE Log(c, ErrorEntry(files[1], "Test failed", msg))

HandleTestUpload ==
    /\ Click
    /\ page = "uploader"
    /\ loggedIn
    /\ ~(isScheduling \/ isTesting)
    /\ testUploads < MaxTests
    /\ testUploads' = testUploads + 1
    /\ IF files = <<>>
       THEN /\ Commit(Log(Ctx, Entry("", "error", "No file selected to test.")))
            /\ UNCHANGED <<isTesting, test>>
       ELSE LET c == Log(Ctx, Entry("", "info", "Starting test upload"))
            IN  IF activePage = NoPage
                THEN /\ Commit(TestCatch(c, <<"N","o"," ","a","c","t","i","v","e"," ","p","a","g","e"," ","s","e","l","e","c","t","e","d",".">>))
                     /\ UNCHANGED <<isTesting, test>>
                ELSE /\ Commit(UploadPostStart(c, files[1]))
                     /\ isTesting' = TRUE
                     /\ test' = "enhance"
    /\ UNCHANGED now
    /\ Fixed

\* generateCaptionForScheduling resolves for the test upload (it never rejects)
TestCaptionReady ==
    /\ Callback
    /\ test = "enhance"
    /\ Commit(UploadPostCaptionReady(Ctx, files[1]))
    /\ test' = "media"
    /\ UNCHANGED <<now, isTesting, testUploads>>
    /\ Fixed

\* the photos/videos endpoint answers the test upload
TestMediaResponse ==
    /\ Callback
    /\ test = "media"
    /\ \/ /\ Commit(UploadPostMediaUploaded(Ctx, files[1], FALSE))
          /\ test' = "post"
          /\ UNCHANGED isTesting
       \/ /\ \E msg \in {MediaFailedPrefix \o m : m \in ErrorMessages} \cup {NoMediaIdMessage} :
                Commit(TestCatch(Ctx, msg))
          /\ test' = "idle"
          /\ isTesting' = FALSE
    /\ UNCHANGED <<now, testUploads>>
    /\ Fixed

\* the feed endpoint answers the test upload
TestPostResponse ==
    /\ Callback
    /\ test = "post"
    /\ \/ Commit(UploadPostSuccess(Ctx, files[1], FALSE))
       \/ \E m \in ErrorMessages : Commit(TestCatch(Ctx, PostFailedPrefix \o m))
    /\ test' = "idle"
    /\ isTesting' = FALSE
    /\ UNCHANGED <<now, testUploads>>
    /\ Fixed

\* generateCaptionForScheduling resolves for the item in flight
RunCaptionReadyU ==
    /\ Callback
    /\ page = "uploader"
    /\ run.pc = "enhance"
    /\ Commit([UploadPostCaptionReady(Ctx, run.queue[run.i + 1]) EXCEPT !.run.pc = "media"])
    /\ UNCHANGED now
    /\ NoTest
    /\ Fixed

\* the photos/videos endpoint answers for the item in flight
RunMediaResponseU ==
    /\ Callback
    /\ page = "uploader"
    /\ run.pc = "media"
    /\ \/ Commit([UploadPostMediaUploaded(Ctx, run.queue[run.i + 1], TRUE) EXCEPT !.run.pc = "post"])
       \/ \E msg \in {MediaFailedPrefix \o m : m \in ErrorMessages} \cup {NoMediaIdMessage} :
              Commit(CatchU(Ctx, run.i, msg))
    /\ UNCHANGED now
    /\ NoTest
    /\ Fixed

\* the feed endpoint answers for the item in flight
RunPostResponseU ==
    /\ Callback
    /\ page = "uploader"
    /\ run.pc = "post"
    /\ \/ Commit(LoopU(UploadPostSuccess(Ctx, run.queue[run.i + 1], TRUE), run.i + 1, isPausedRef))
       \/ \E m \in ErrorMessages : Commit(CatchU(Ctx, run.i, PostFailedPrefix \o m))
    /\ UNCHANGED now
    /\ NoTest
    /\ Fixed

\* sleep(1000) resolves inside the pause wait
PauseWakeU ==
    /\ Callback
    /\ page = "uploader"
    /\ run.pc = "sleep"
    /\ Commit(PauseWaitU(Ctx, run.i, isPausedRef))
    /\ UNCHANGED now
    /\ NoTest
    /\ Fixed

-----------------------------------------------------------------------------
(* CrossPostPage: handlers *)

StartX(ref) ==
    LET postsToSchedule == filterSelected(sourcePosts, selectedPostIds)
        c0 == [Ctx EXCEPT !.isScheduling = TRUE, !.isPaused = FALSE, !.cancelled = FALSE,
                          !.log = <<>>,
                          !.progress = [current |-> 0, total |-> Len(postsToSchedule)],
                          !.logoutCalls = 0, !.uploads = <<>>]
        c1 == [c0 EXCEPT !.run = [IdleRun EXCEPT !.queue = postsToSchedule,
                                      !.scheduleTime = ManualStart(schedulerSettings, tzOffset),
                                      !.history = crossPostHistory,
                                      !.dest = destinationPage]]
    IN  LoopX(c1, 0, ref)

HandleSchedulingProcessX ==
    /\ Click
    /\ page = "crosspost"
    /\ loggedIn
    /\ IF isScheduling
       THEN Commit(Log([Ctx EXCEPT !.cancelled = TRUE], Entry("", "info", "Stopping process...")))
       ELSE IF \/ filterSelected(sourcePosts, selectedPostIds) = <<>>
               \/ destinationPage = NoPage
               \/ sourcePage = NoPage
               \/ destinationPage = sourcePage
       THEN Commit(Ctx)
       ELSE Commit(StartX(isPausedRef))
    /\ UNCHANGED now
    /\ NoTest
    /\ Fixed

\* manipulateImage and generateCrossPostCaption resolve (neither rejects)
RunEnhancedX ==
    /\ Callback
    /\ page = "crosspost"
    /\ run.pc = "enhance"
    /\ Commit([UploadCrossPostEnhanced(Ctx, run.queue[run.i + 1]) EXCEPT !.run.pc = "media"])
    /\ UNCHANGED now
    /\ NoTest
    /\ Fixed

\* the photos endpoint answers
RunMediaResponseX ==
    /\ Callback
    /\ page = "crosspost"
    /\ run.pc = "media"
    /\ \/ Commit([UploadCrossPostMediaUploaded(Ctx, run.queue[run.i + 1]) EXCEPT !.run.pc = "post"])
       \/ \E m \in ErrorMessages : Commit(CatchX(Ctx, run.i, MediaFailedPrefix \o m))
    /\ UNCHANGED now
    /\ NoTest
    /\ Fixed

\* the feed endpoint answers; a created post exists on the destination page
RunPostResponseX ==
    /\ Callback
    /\ page = "crosspost"
    /\ run.pc = "post"
    /\ \/ Commit(NextItemX([UploadCrossPostSuccess(Ctx, run.queue[run.i + 1])
                               EXCEPT !.fbPosts = @ \cup {historyKey(run.queue[run.i + 1], run.dest)}],
                           run.i))
       \/ \E m \in ErrorMessages : Commit(CatchX(Ctx, run.i, PostFailedPrefix \o m))
    /\ UNCHANGED now
    /\ NoTest
    /\ Fixed

\* sleep(1000) resolves inside the pause wait
PauseWakeX ==
    /\ Callback
    /\ page = "crosspost"
    /\ run.pc = "sleep"
    /\ Commit(PauseWaitX(Ctx, run.i, isPausedRef))
    /\ UNCHANGED now
    /\ NoTest
    /\ Fixed

-----------------------------------------------------------------------------
(* Both pages *)

\* the pause switch: setIsPaused(v), the render and the isPausedRef effect
SetIsPaused ==
    /\ Click
    /\ loggedIn
    /\ Commit([Ctx EXCEPT !.isPaused = ~isPaused])
    /\ UNCHANGED now
    /\ NoTest
    /\ Fixed

\* handleFetchPages succeeds, then the page-selection effect
HandleFetchPages ==
    /\ Click
    /\ ~loggedIn
    /\ IF page = "uploader"
       THEN Commit([Ctx EXCEPT !.loggedIn = TRUE, !.activePage = "A"])
       ELSE \E dest \in {"A", "B"} :
               Commit([Ctx EXCEPT !.loggedIn = TRUE, !.sourcePage = "A", !.destinationPage = dest])
    /\ UNCHANGED now
    /\ NoTest
    /\ Fixed

\* the wall clock advances
Tick ==
    /\ run.pc # "generate"
    /\ now < NowInit + MaxTicks * TickMinutes
    /\ now' = now + TickMinutes
    /\ UNCHANGED <<page, tzOffset, loggedIn, activePage, sourcePage, destinationPage,
                   schedulerSettings, files, sourcePosts, selectedPostIds, crossPostHistory,
                   isScheduling, isPaused, isPausedRef, isTesting, cancelled,
                   schedulingProgress, schedulingLog, run, test, fbPosts, logoutCalls,
                   uploads, clicks, testUploads, allocPc, alloc>>

-----------------------------------------------------------------------------
(* The pages after mount *)

InitCommon ==
    /\ now = NowInit
    /\ tzOffset = 0
    /\ loggedIn = TRUE
    /\ schedulerSettings \in RunSettings
    /\ isScheduling = FALSE
    /\ isPaused = FALSE
    /\ isPausedRef = FALSE
    /\ isTesting = FALSE
    /\ cancelled = FALSE
    /\ schedulingProgress = [current |-> 0, total |-> 0]
    /\ schedulingLog = <<>>
    /\ run = IdleRun
    /\ test = "idle"
    /\ logoutCalls = 0
    /\ uploads = <<>>
    /\ clicks = 0
    /\ testUploads = 0
    /\ allocPc = "done"
    /\ alloc = NoAlloc

InitUploader ==
    /\ page = "uploader"
    /\ activePage \in {"A", NoPage}
    /\ sourcePage = NoPage
    /\ destinationPage = NoPage
    /\ files \in {SubSeq(FileNames, 1, n) : n \in 0..MaxFiles}
    /\ sourcePosts = <<>>
    /\ selectedPostIds = {}
    /\ crossPostHistory = {}
    /\ fbPosts = {}

InitCrossPost ==
    /\ page = "crosspost"
    /\ activePage = NoPage
    /\ sourcePage = "A"
    /\ destinationPage \in {"A", "B"}
    /\ files = <<>>
    /\ sourcePosts \in SeqsUpTo(PostIds, MaxFiles)
    /\ selectedPostIds = PostIds
    /\ crossPostHistory \in {{}, {historyKey(PostNames[1], "B")}}
    /\ fbPosts = crossPostHistory

Init == InitCommon /\ (InitUploader \/ InitCrossPost)

Next ==
    \/ HandleSchedulingProcessU
    \/ GenerateResolvedU
    \/ GenerateRejectedU
    \/ RunCaptionReadyU
    \/ RunMediaResponseU
    \/ RunPostResponseU
    \/ PauseWakeU
    \/ HandleSchedulingProcessX
    \/ RunEnhancedX
    \/ RunMediaResponseX
    \/ RunPostResponseX
    \/ PauseWakeX
    \/ SetIsPaused
    \/ HandleFetchPages
    \/ Tick

\* the two pages: runs, the pause switch, cancellation, login and the clock
Spec == Init /\ [][Next]_vars

\* timers fire and the collaborators answer: every awaited promise settles
RunCallbacks ==
    \/ GenerateResolvedU
    \/ GenerateRejectedU
    \/ RunCaptionReadyU
    \/ RunMediaResponseU
    \/ RunPostResponseU
    \/ PauseWakeU
    \/ RunEnhancedX
    \/ RunMediaResponseX
    \/ RunPostResponseX
    \/ PauseWakeX

\* the steps of the two pages while the clock reading stays the same
NextLive ==
    \/ HandleSchedulingProcessU
    \/ GenerateResolvedU
    \/ GenerateRejectedU
    \/ RunCaptionReadyU
    \/ RunMediaResponseU
    \/ RunPostResponseU
    \/ PauseWakeU
    \/ HandleSchedulingProcessX
    \/ RunEnhancedX
    \/ RunMediaResponseX
    \/ RunPostResponseX
    \/ PauseWakeX
    \/ SetIsPaused
    \/ HandleFetchPages

\* the runs of the two pages at one clock reading, every awaited promise settling
LiveSpec == Init /\ [][NextLive]_vars /\ WF_vars(RunCallbacks)

-----------------------------------------------------------------------------
(* UploaderPage with its test upload, over queues of at most MaxTestFiles files *)

InitTest ==
    /\ InitCommon
    /\ InitUploader
    /\ Len(files) <= MaxTestFiles
    /\ ~schedulerSettings.smartScheduleEnabled

NextTest ==
    \/ HandleTestUpload
    \/ TestCaptionReady
    \/ TestMediaResponse
    \/ TestPostResponse
    \/ HandleSchedulingProcessU
    \/ RunCaptionReadyU
    \/ RunMediaResponseU
    \/ RunPostResponseU
    \/ PauseWakeU
    \/ SetIsPaused
    \/ HandleFetchPages
    \/ Tick

SpecTest == InitTest /\ [][NextTest]_vars

-----------------------------------------------------------------------------
(* The slot allocator alone, over wide inputs *)

AllocSettings ==
    Settings({Today - 1, Today}, {<<0, 0>>, <<9, 0>>, <<22, 30>>, <<23, 59>>},
             {<<0, 0>>, <<9, 0>>, <<22, 0>>, <<23, 59>>},
             {1, 30, 60, 15 * MinutesPerHour, MinutesPerDay, 25 * MinutesPerHour}, {FALSE})

TzOffsets == {0 - 5 * MinutesPerHour, 0, 5 * MinutesPerHour + 30}

\* hourly weight vectors: the mock, hour 0 on top, all equal, hours 23 and 0 on top
InsightVectors ==
    { fetchPageInsights,
      [h \in 1..24 |-> 25 - h],
      [h \in 1..24 |-> 100],
      [h \in 1..24 |-> IF h \in {1, 24} THEN 900 ELSE (7 * h) % 24] }

\* times of day at which a schedule is generated
GenerationTimes == {<<0, 0>>, <<8, 55>>, <<19, 55>>, <<23, 50>>, <<23, 55>>}

InitAllocManual ==
    /\ now = NowInit
    /\ tzOffset \in TzOffsets
    /\ schedulerSettings \in AllocSettings
    /\ files \in {[k \in 1..n |-> FileNames[1]] : n \in 0..MaxCount}
    /\ alloc = NoAlloc

InitAllocSmart ==
    /\ now \in {Today * MinutesPerDay + hm[1] * MinutesPerHour + hm[2] : hm \in GenerationTimes}
    /\ tzOffset = 0
    /\ schedulerSettings \in Settings({Today}, {<<9, 0>>}, {<<22, 0>>}, {60}, {TRUE})
    /\ \E n \in 0..MaxCount :
          /\ files = [k \in 1..n |-> FileNames[1]]
          /\ alloc \in [insights : InsightVectors, minutes : [1..n -> RandomMinutes],
                        scheduleDates : {<<>>}]

InitAlloc ==
    /\ page = "uploader"
    /\ InitAllocManual \/ InitAllocSmart
    /\ loggedIn = TRUE
    /\ activePage = "A"
    /\ sourcePage = NoPage
    /\ destinationPage = NoPage
    /\ sourcePosts = <<>>
    /\ selectedPostIds = {}
    /\ crossPostHistory = {}
    /\ isScheduling = FALSE
    /\ isPaused = FALSE
    /\ isPausedRef = FALSE
    /\ isTesting = FALSE
    /\ cancelled = FALSE
    /\ schedulingProgress = [current |-> 0, total |-> 0]
    /\ schedulingLog = <<>>
    /\ run = IdleRun
    /\ test = "idle"
    /\ fbPosts = {}
    /\ logoutCalls = 0
    /\ uploads = <<>>
    /\ clicks = 0
    /\ testUploads = 0
    /\ allocPc = "ready"

\* the manual branch of handleSchedulingProcess fills scheduleTimes
GenerateManual ==
    /\ allocPc = "ready"
    /\ ~schedulerSettings.smartScheduleEnabled
    /\ run' = [run EXCEPT !.queue = files,
                          !.scheduleTimes = ManualSchedule(schedulerSettings, Len(files), tzOffset)]
    /\ allocPc' = "done"
    /\ UNCHANGED <<page, now, tzOffset, loggedIn, activePage, sourcePage, destinationPage,
                   schedulerSettings, files, sourcePosts, selectedPostIds, crossPostHistory,
                   isScheduling, isPaused, isPausedRef, isTesting, cancelled,
                   schedulingProgress, schedulingLog, test, fbPosts, logoutCalls,
                   uploads, clicks, testUploads, alloc>>

\* getSmartSchedule(activePage, files.length) on the insights and random minutes of alloc
GenerateSmart ==
    /\ allocPc = "ready"
    /\ schedulerSettings.smartScheduleEnabled
    /\ LET hours == hoursWithFollowers(alloc.insights)
           n == Len(files)
       IN  /\ run' = [run EXCEPT !.queue = files,
                         !.scheduleTimes = getSmartSchedule(hours, n, alloc.minutes, now)]
           /\ alloc' = [alloc EXCEPT !.scheduleDates =
                           SmartLoop(hours, 0, n, addDay(now), alloc.minutes, now)]
    /\ allocPc' = "done"
    /\ UNCHANGED <<page, now, tzOffset, loggedIn, activePage, sourcePage, destinationPage,
                   schedulerSettings, files, sourcePosts, selectedPostIds, crossPostHistory,
                   isScheduling, isPaused, isPausedRef, isTesting, cancelled,
                   schedulingProgress, schedulingLog, test, fbPosts, logoutCalls,
                   uploads, clicks, testUploads>>

NextAlloc == GenerateManual \/ GenerateSmart

SpecAlloc == InitAlloc /\ [][NextAlloc]_vars

-----------------------------------------------------------------------------
(* Properties *)

StrictlyIncreasing(seq) == \A k \in 1..(Len(seq) - 1) : seq[k] < seq[k + 1]

\* C10: manual allocation returns exactly count timestamps, in queue order, strictly
\* increasing, for every count, every interval > 0 and every startTime/endTime pair
\* (startTime after endTime and intervals that pass midnight included).
C10_ManualStrictlyIncreasing ==
    (allocPc = "done" /\ ~schedulerSettings.smartScheduleEnabled) =>
        /\ Len(run.scheduleTimes) = Len(files)
        /\ StrictlyIncreasing(run.scheduleTimes)

\* three or more slots of a window that ends before it starts, with a day rollover
C10_Witness ==
    /\ allocPc = "done"
    /\ Len(run.scheduleTimes) >= 3
    /\ schedulerSettings.startTime = <<22, 30>>
    /\ schedulerSettings.endTime = <<9, 0>>
    /\ schedulerSettings.interval = 15 * MinutesPerHour
    /\ run.scheduleTimes[2] \div MinutesPerDay > run.scheduleTimes[1] \div MinutesPerDay

\* the entries a step puts at the head of the log
NewEntries == SubSeq(schedulingLog', 1, Len(schedulingLog') - Len(schedulingLog))

\* a step keeps every entry the log had
LogExtended ==
    /\ Len(schedulingLog') >= Len(schedulingLog)
    /\ SubSeq(schedulingLog', Len(schedulingLog') - Len(schedulingLog) + 1, Len(schedulingLog'))
           = schedulingLog

HasEntry(log, f, statuses) ==
    \E k \in 1..Len(log) : log[k].file = f /\ log[k].status \in statuses

HasMessage(log, m) == \E k \in 1..Len(log) : log[k].message = m

\* the item in flight
InFlightItem == run.queue[run.i + 1]

\* C1: in both flows, once the cancel flag is set while item i is in flight, item i
\* still runs to completion (its success or failure is logged), the run then stops,
\* and no call and no log entry is made for any later item. (Holds whatever the pause
\* flag is.)
C1_CancelLetsItemFinish ==
    [][(isScheduling /\ cancelled /\ run.pc \in InFlight) =>
          /\ uploads' = uploads
          /\ LogExtended
          /\ \A k \in 1..Len(NewEntries) : NewEntries[k].file \in {"", InFlightItem}
          /\ \/ isScheduling' /\ run'.pc \in InFlight /\ run'.i = run.i
             \/ /\ ~isScheduling'
                /\ run'.pc = "idle"
                /\ HasEntry(NewEntries, InFlightItem, {"success", "error"})]_vars

\* a run of two items stopped after its first item succeeded
C1_Witness ==
    /\ ~isScheduling
    /\ cancelled
    /\ uploads = <<0>>
    /\ schedulingProgress = [current |-> 1, total |-> 2]
    /\ HasMessage(schedulingLog, "Scheduling cancelled by user.")
    /\ HasEntry(schedulingLog, IF page = "uploader" THEN FileNames[1] ELSE PostNames[1], {"success"})

\* C2: if the cancel flag becomes set while the runner is suspended in the pause wait
\* before item i, the item loop is left: neither item i nor a later item is attempted
\* (no progress update, no upload call), in both flows.
C2_CancelInPauseWaitStopsRun ==
    [][(run.pc = "sleep" /\ cancelled) =>
          (uploads' = uploads /\ schedulingProgress' = schedulingProgress)]_vars

\* thrown messages that hold "token", "session" or "oauth" in some letter case
FatalTexts ==
    {pre \o m : pre \in {MediaFailedPrefix, PostFailedPrefix}, m \in {MsgOAuth, MsgSession, MsgToken}}

\* thrown messages that hold none of them
PerItemTexts ==
    {pre \o MsgLimit : pre \in {MediaFailedPrefix, PostFailedPrefix}} \cup {NoMediaIdMessage}

\* the step is the catch block of the item in flight, entered with a message in texts
Caught(texts) ==
    /\ isScheduling
    /\ run.pc \in InFlight
    /\ LogExtended
    /\ \E k \in 1..Len(NewEntries) :
          NewEntries[k].message = "Failed" /\ NewEntries[k].detail \in texts

\* C3: a failure whose message holds "token", "session" or "oauth" in any letter case
\* ends the run at once: no later item is attempted whatever the queue length, and
\* handleLogout is called exactly once in that run (and in no other case).
C3_AuthFailureAbortsRun ==
    [][/\ Caught(FatalTexts) =>
            /\ ~isScheduling'
            /\ run'.pc = "idle"
            /\ uploads' = uploads
            /\ logoutCalls = 0
            /\ logoutCalls' = 1
            /\ ~loggedIn'
       /\ logoutCalls' > logoutCalls => Caught(FatalTexts)]_vars

\* the first of two items failed with an upper-case TOKEN message and the run is over
C3_Witness ==
    /\ ~isScheduling
    /\ logoutCalls = 1
    /\ ~loggedIn
    /\ uploads = <<0>>
    /\ schedulingProgress = [current |-> 1, total |-> 2]
    /\ \E k \in 1..Len(schedulingLog) : schedulingLog[k].detail = PostFailedPrefix \o MsgToken

\* the positions after i that the run passes over as already cross-posted
SkippedAfter(i) ==
    IF page = "crosspost"
    THEN {j \in (i + 1)..(Len(run.queue) - 1) :
             \A k \in (i + 1)..j : historyKey(run.queue[k + 1], run.dest) \in run.history}
    ELSE {}

\* the position dispatched after i when nothing holds the run back
NextPosition(i) == i + 1 + Cardinality(SkippedAfter(i))

\* C4: a failure of item i whose message holds none of the three words writes an error
\* entry naming item i, calls no handleLogout and leaves the run going: unless the run
\* is cancelled or paused, the next item that is not a duplicate is dispatched in the
\* same step, or the run completes when there is none (a paused run waits in front of
\* item i + 1); and, the promises settling and
\* the pause not being held for ever, the run reaches the end (isScheduling false).
C4_PerItemFailureContinues ==
    /\ [][Caught(PerItemTexts) =>
            /\ \E k \in 1..Len(NewEntries) :
                  /\ NewEntries[k].message = "Failed"
                  /\ NewEntries[k].file = InFlightItem
                  /\ NewEntries[k].status = "error"
            /\ logoutCalls' = logoutCalls
            /\ loggedIn' = loggedIn
            /\ IF cancelled
               THEN ~isScheduling' /\ uploads' = uploads
               ELSE IF run.i + 1 >= Len(run.queue)
               THEN ~isScheduling' /\ uploads' = uploads
               ELSE IF isPausedRef
               THEN isScheduling' /\ run'.pc = "sleep" /\ run'.i = run.i + 1 /\ uploads' = uploads
               ELSE IF NextPosition(run.i) >= Len(run.queue)
               THEN ~isScheduling' /\ uploads' = uploads
               ELSE /\ isScheduling'
                    /\ run'.pc = "enhance"
                    /\ uploads' = Append(uploads, NextPosition(run.i))]_vars
    /\ ([]<>(~isPausedRef)) =>
           ((isScheduling /\ HasMessage(schedulingLog, "Failed")) ~> ~isScheduling)

\* the first item failed with a rate-limit message and the second one succeeded
C4_Witness ==
    /\ ~isScheduling
    /\ loggedIn
    /\ logoutCalls = 0
    /\ uploads = <<0, 1>>
    /\ HasMessage(schedulingLog, "Failed")
    /\ HasMessage(schedulingLog, "Scheduled successfully!")
    /\ \E k \in 1..Len(schedulingLog) : schedulingLog[k].detail = MediaFailedPrefix \o MsgLimit

\* C5: in the cross-post flow an item whose key (itemId, destinationId) is in the dedup
\* store when the run reaches it is skipped: it is never handed to the enhancement, the
\* media upload or createPost.
C5_DuplicateIsSkipped ==
    (page = "crosspost" /\ run.pc \in InFlight) =>
        historyKey(InFlightItem, run.dest) \notin crossPostHistory

\* C6: in the cross-post flow, once createPost has succeeded for a pair
\* (itemId, destinationId), that pair is not submitted to createPost again, whatever
\* the queue holds (the same itemId twice included).
C6_NoResubmission ==
    [][(page = "crosspost" /\ run.pc = "media" /\ run'.pc = "post") =>
          historyKey(InFlightItem, run.dest) \notin fbPosts]_vars

\* C7: on the uploader page at most one uploadPost call sequence is in flight, under any
\* interleaving of the start/stop toggle, the pause switch and the test upload.
C7_OneUploadInFlight == ~(test \in InFlight /\ run.pc \in InFlight)

\* C8: while the pause flag is set and the runner waits between items, the progress
\* counter does not change, no upload is started and the index of the wait is kept.
C8_PauseHoldsRun ==
    [][(run.pc = "sleep" /\ isPausedRef) =>
          /\ schedulingProgress' = schedulingProgress
          /\ uploads' = uploads
          /\ run'.i = run.i
          /\ run'.pc = "sleep"]_vars

\* C9: every target time handed to uploadPost / uploadCrossPost is at least 10 minutes
\* later than the clock at the dispatch of the item, for every configuration.
C9_LeadTimeAtDispatch ==
    run.pc \in InFlight => run.slot >= run.dispatchedAt + LeadMinutes

\* minutes since local midnight of a timestamp, and of an (hour, minute) pair
TimeOfDay(t) == t % MinutesPerDay

PairMinutes(hm) == hm[1] * MinutesPerHour + hm[2]

\* C11: for manual allocation with startTime <= endTime and interval > 0, every emitted
\* timestamp has a local time of day inside [startTime, endTime] and lies on a calendar
\* day not earlier than startDate, for every count.
C11_ManualInsideWindow ==
    (/\ allocPc = "done"
     /\ ~schedulerSettings.smartScheduleEnabled
     /\ PairMinutes(schedulerSettings.startTime) <= PairMinutes(schedulerSettings.endTime)) =>
        \A k \in 1..Len(run.scheduleTimes) :
            /\ TimeOfDay(run.scheduleTimes[k]) >= PairMinutes(schedulerSettings.startTime)
            /\ TimeOfDay(run.scheduleTimes[k]) <= PairMinutes(schedulerSettings.endTime)
            /\ run.scheduleTimes[k] \div MinutesPerDay >= schedulerSettings.startDate

NonDecreasing(seq) == \A k \in 1..(Len(seq) - 1) : seq[k] <= seq[k + 1]

\* C12: getSmartSchedule returns exactly count timestamps, sorted ascending
\* (non-decreasing), for every count >= 0 and every vector of 24 hourly weights.
C12_SmartCountAndSorted ==
    (allocPc = "done" /\ schedulerSettings.smartScheduleEnabled) =>
        /\ Len(run.scheduleTimes) = Len(files)
        /\ NonDecreasing(run.scheduleTimes)

\* four or more slots whose order of creation is not the ascending order
C12_Witness ==
    /\ allocPc = "done"
    /\ schedulerSettings.smartScheduleEnabled
    /\ Len(run.scheduleTimes) >= 4
    /\ ~NonDecreasing(alloc.scheduleDates)
    /\ alloc.insights # fetchPageInsights

\* hour h stands at position r (from 0) of some descending order of the weights w
RankedAt(w, h, r) ==
    /\ Cardinality({g \in 0..23 : w[g + 1] > w[h + 1]}) <= r
    /\ Cardinality({g \in 0..23 : w[g + 1] >= w[h + 1]}) > r

\* candidate i before the lead-time correction, from its own hour
Uncorrected(i) ==
    ((now \div MinutesPerDay) + 1 + (i \div PerDay)) * MinutesPerDay
        + getHours(alloc.scheduleDates[i + 1]) * MinutesPerHour + alloc.minutes[i + 1]

\* C13: before the final sort, candidate i has the hour ranked i mod 5 in the descending
\* order of the 24 weights and the date tomorrow + floor(i / 3) days, moved forward by
\* exactly one more day if and only if it is earlier than now + 10 minutes; so only the
\* five top-ranked hours occur.
C13_SmartCandidates ==
    (allocPc = "done" /\ schedulerSettings.smartScheduleEnabled) =>
        /\ Len(alloc.scheduleDates) = Len(files)
        /\ \A i \in 0..(Len(alloc.scheduleDates) - 1) :
              /\ RankedAt(alloc.insights, getHours(alloc.scheduleDates[i + 1]), i % TopHours)
              /\ alloc.scheduleDates[i + 1] =
                    IF Uncorrected(i) < now + LeadMinutes
                    THEN Uncorrected(i) + MinutesPerDay
                    ELSE Uncorrected(i)
        /\ \A i, j \in 0..(Len(alloc.scheduleDates) - 1) :
              (getHours(alloc.scheduleDates[i + 1]) = getHours(alloc.scheduleDates[j + 1]))
                  <=> (i % TopHours = j % TopHours)
        /\ Cardinality({getHours(alloc.scheduleDates[k]) : k \in 1..Len(alloc.scheduleDates)})
              <= TopHours

\* seven candidates generated at 23:55 with hour 0 on top: the first one is corrected,
\* the sixth one takes the first hour again on the second day
C13_Witness ==
    /\ allocPc = "done"
    /\ schedulerSettings.smartScheduleEnabled
    /\ Len(alloc.scheduleDates) = 7
    /\ TimeOfDay(now) = 23 * MinutesPerHour + 55
    /\ alloc.scheduleDates[1] = ((now \div MinutesPerDay) + 2) * MinutesPerDay
    /\ alloc.scheduleDates[6] = ((now \div MinutesPerDay) + 2) * MinutesPerDay + 59
    /\ alloc.scheduleDates[7] \div MinutesPerDay = (now \div MinutesPerDay) + 3

\* C14: no timestamp returned by getSmartSchedule is earlier than the generation time
\* plus 10 minutes, for every generation time of day (the last 10 minutes before
\* midnight included) and every ranking of the hours (hour 0 in the top five included).
C14_SmartLeadTime ==
    (allocPc = "done" /\ schedulerSettings.smartScheduleEnabled) =>
        \A k \in 1..Len(run.scheduleTimes) : run.scheduleTimes[k] >= now + LeadMinutes

\* generated at 23:55 with hour 0 on top and minute 0: tomorrow 00:00 is less than ten
\* minutes away and the slot returned for it is 00:00 of the day after
C14_Witness ==
    /\ allocPc = "done"
    /\ schedulerSettings.smartScheduleEnabled
    /\ TimeOfDay(now) = 23 * MinutesPerHour + 55
    /\ Len(run.scheduleTimes) >= 2
    /\ alloc.minutes[1] = 0
    /\ getHours(alloc.scheduleDates[1]) = 0
    /\ \E k \in 1..Len(run.scheduleTimes) :
          run.scheduleTimes[k] = ((now \div MinutesPerDay) + 2) * MinutesPerDay
    /\ \A k \in 1..Len(run.scheduleTimes) :
          run.scheduleTimes[k] # ((now \div MinutesPerDay) + 1) * MinutesPerDay

\* the files of the success entries of a log, oldest entry first
SuccessFiles(log) ==
    LET succ == SelectSeq(log, LAMBDA e : e.status = "success")
    IN  [k \in 1..Len(succ) |-> succ[Len(succ) + 1 - k].file]

\* C15: a run over n >= 1 items in manual mode with no dedup match, no cancellation and
\* every call succeeding ends with exactly n success entries in the log, one per item in
\* submission order, with progress (n, n) and with the run completed (not running).
C15_AllSucceed ==
    [][(/\ isScheduling
        /\ ~schedulerSettings.smartScheduleEnabled
        /\ run.pc = "post"
        /\ run.i + 1 = Len(run.queue)
        /\ LogExtended
        /\ HasEntry(NewEntries, InFlightItem, {"success"})
        /\ ~HasMessage(schedulingLog', "Failed")
        /\ ~HasMessage(schedulingLog', "Skipped")
        /\ ~HasMessage(schedulingLog', "Scheduling cancelled by user.")) =>
          /\ ~isScheduling'
          /\ run'.pc = "idle"
          /\ schedulingProgress' = [current |-> Len(run.queue), total |-> Len(run.queue)]
          /\ SuccessFiles(schedulingLog') = run.queue
          /\ page = "uploader" => run.queue = files]_vars

\* two files uploaded one after the other in manual mode, the run over
C15_Witness ==
    /\ page = "uploader"
    /\ ~schedulerSettings.smartScheduleEnabled
    /\ ~isScheduling
    /\ uploads = <<0, 1>>
    /\ schedulingProgress = [current |-> 2, total |-> 2]
    /\ SuccessFiles(schedulingLog) = <<FileNames[1], FileNames[2]>>
    /\ schedulingLog[1].message = "Scheduling complete."
    /\ ~HasMessage(schedulingLog, "Failed")
    /\ ~HasMessage(schedulingLog, "Stopping scheduling process...")

\* the queue handleSchedulingProcess of the mounted page would run over
Queue == IF page = "uploader" THEN files ELSE filterSelected(sourcePosts, selectedPostIds)

\* an empty queue or no valid destination
InvalidRequest ==
    \/ Queue = <<>>
    \/ page = "uploader" /\ activePage = NoPage
    \/ page = "crosspost" /\ (destinationPage = NoPage \/ sourcePage = NoPage
                               \/ destinationPage = sourcePage)

\* C16: the toggle invoked while not running, with an empty queue or without a valid
\* destination, does not make the run state Running, makes no enhancement, upload or
\* publish call and leaves the progress counter, the cancel flag and the pause flag
\* unchanged.
C16_InvalidRequestStartsNothing ==
    [][((HandleSchedulingProcessU \/ HandleSchedulingProcessX)
            /\ ~isScheduling /\ InvalidRequest) =>
          /\ ~isScheduling'
          /\ run' = run
          /\ uploads' = uploads
          /\ schedulingProgress' = schedulingProgress
          /\ cancelled' = cancelled
          /\ isPaused' = isPaused
          /\ isPausedRef' = isPausedRef]_vars

\* the toggle was refused for the missing page while the pause switch was on
C16_Witness ==
    /\ page = "uploader"
    /\ activePage = NoPage
    /\ files # <<>>
    /\ ~isScheduling
    /\ isPaused
    /\ uploads = <<>>
    /\ schedulingLog # <<>>
    /\ schedulingLog[1].message = "No Facebook Page selected."

\* C17: every failure of a run is surfaced as a log entry with status error, in both
\* flows; stated for the validation failure: the toggle refused for an empty queue or a
\* missing or invalid destination adds at least one error entry to the log.
C17_ValidationFailureIsLogged ==
    [][((HandleSchedulingProcessU \/ HandleSchedulingProcessX)
            /\ ~isScheduling /\ InvalidRequest) =>
          /\ LogExtended
          /\ \E k \in 1..Len(NewEntries) : NewEntries[k].status = "error"]_vars

\* C18: if slot generation throws, the failure is logged, no queue item is attempted (no
\* progress beyond 0, no upload call) and the run state is idle throughout the
\* invocation: it is not running between the toggle and the abort.
C18_GenerationFailureStaysIdle ==
    [][(/\ run.pc = "generate"
        /\ LogExtended
        /\ HasMessage(NewEntries, "Schedule generation failed")) =>
          /\ \E k \in 1..Len(NewEntries) : NewEntries[k].status = "error"
          /\ uploads' = <<>>
          /\ schedulingProgress'.current = 0
          /\ ~isScheduling
          /\ ~isScheduling']_vars

\* C19: at most one run is active at a time: an item loop exists only while the state is
\* running; the toggle invoked while running only sets the cancellation flag and returns
\* (it starts no item and no second loop); the state becomes running only by a toggle
\* invoked while no run is active.
C19_OneActiveRun ==
    [][/\ run.pc # "idle" => isScheduling
       /\ (isScheduling /\ (HandleSchedulingProcessU \/ HandleSchedulingProcessX)) =>
             /\ cancelled'
             /\ isScheduling'
             /\ run' = run
             /\ uploads' = uploads
             /\ schedulingProgress' = schedulingProgress
       /\ (~isScheduling /\ isScheduling') =>
             /\ HandleSchedulingProcessU \/ HandleSchedulingProcessX
             /\ run.pc = "idle"
             /\ Len(uploads') <= 1]_vars

\* the toggle was invoked while the second item of a run was in flight
C19_Witness ==
    /\ isScheduling
    /\ cancelled
    /\ run.pc \in InFlight
    /\ run.i = 1
    /\ uploads = <<0, 1>>
    /\ schedulingLog[1].message \in {"Stopping scheduling process...", "Stopping process..."}

\* C20: in every run during which the toggle was invoked while running, the
\* log at the end of that run contains a "Scheduling cancelled by user."
\* entry.  The end of a run is the step that takes isScheduling from TRUE to
\* FALSE; the cancel token still holds the request made during the run.
C20_CancelIsLogged ==
    [][(isScheduling /\ ~isScheduling' /\ cancelled) =>
          HasMessage(schedulingLog', "Scheduling cancelled by user.")]_vars

\* the step ends a run whose loop ran off the end of its queue: it was neither left at
\* the cancel check nor by the break of a fatal failure, and the generation did not fail
RunExhausted ==
    /\ ~isScheduling'
    /\ \/ isScheduling
       \/ (HandleSchedulingProcessU \/ HandleSchedulingProcessX) /\ ~InvalidRequest
    /\ ~HasMessage(schedulingLog', "Scheduling cancelled by user.")
    /\ ~HasMessage(schedulingLog', "Schedule generation failed")
    /\ logoutCalls' = 0

\* C21: within a run the progress is (0, |Q|) at the start of the run, current never
\* decreases, 0 <= current <= total = |Q| holds throughout, current is i + 1 from the
\* moment item i is reached (items skipped as duplicates included; in the pause wait
\* before item i it is still i), and a run that exhausts its queue ends with (|Q|, |Q|).
C21_Progress ==
    [][/\ 0 <= schedulingProgress'.current
       /\ schedulingProgress'.current <= schedulingProgress'.total
       /\ isScheduling' =>
             /\ run'.queue = Queue
             /\ schedulingProgress'.total = Len(Queue)
       /\ (~isScheduling /\ isScheduling' /\ uploads' = <<>>) =>
             schedulingProgress' = [current |-> 0, total |-> Len(Queue)]
       /\ run'.pc \in InFlight => schedulingProgress'.current = run'.i + 1
       /\ run'.pc = "sleep" => schedulingProgress'.current = run'.i
       /\ isScheduling => schedulingProgress'.current >= schedulingProgress.current
       /\ RunExhausted =>
             schedulingProgress' = [current |-> Len(Queue), total |-> Len(Queue)]]_vars

\* the first of two posts was skipped as a duplicate and the second one is in flight
C21_Witness ==
    /\ page = "crosspost"
    /\ isScheduling
    /\ run.pc \in InFlight
    /\ run.i = 1
    /\ uploads = <<1>>
    /\ HasMessage(schedulingLog, "Skipped")
    /\ schedulingProgress = [current |-> 2, total |-> 2]

\* the step is the feed answer of the cross-post in flight and createPost succeeded
CreatePostSucceeded ==
    /\ page = "crosspost"
    /\ run.pc = "post"
    /\ LogExtended
    /\ HasEntry(NewEntries, InFlightItem, {"success"})

\* C22: in the cross-post flow the key (itemId, destinationId) is added to the dedup
\* store exactly when createPost succeeded for that item: every successful createPost
\* adds the key of its item; a failure of the media upload or of createPost and a
\* duplicate skip add none; no key is ever removed, and the store holds the pairs for
\* which a post was created.
C22_KeyOnSuccessOnly ==
    [][/\ CreatePostSucceeded =>
             crossPostHistory' = crossPostHistory \cup {historyKey(InFlightItem, run.dest)}
       /\ crossPostHistory' # crossPostHistory => CreatePostSucceeded
       /\ crossPostHistory' = fbPosts']_vars

\* the first post failed at createPost, the second one was created: only its key is kept
C22_Witness ==
    /\ page = "crosspost"
    /\ ~isScheduling
    /\ uploads = <<0, 1>>
    /\ \E k \in 1..Len(schedulingLog) :
          /\ schedulingLog[k].file = PostNames[1]
          /\ schedulingLog[k].detail = PostFailedPrefix \o MsgLimit
    /\ HasEntry(schedulingLog, PostNames[2], {"success"})
    /\ crossPostHistory = {historyKey(PostNames[2], "B")}

\* C23: every run that entered the item loop ends, on each exit path (queue exhausted,
\* cancellation, fatal auth abort), by writing a "Scheduling complete." entry as the
\* last entry of the log and leaving the running state, in both flows.
C23_CompleteIsLastEntry ==
    [][(isScheduling /\ ~isScheduling' /\ run.pc # "generate") =>
          /\ run'.pc = "idle"
          /\ schedulingLog' # <<>>
          /\ schedulingLog'[1].message = "Scheduling complete."]_vars

\* C24: if cancellation is requested while the pause flag is set, the run terminates
\* (the state leaves running) even if the pause flag is never cleared afterwards, the
\* pause poll and the other awaited promises being served; in both flows.
C24_CancelEndsPausedRun ==
    (isScheduling /\ cancelled /\ isPausedRef) ~> ~isScheduling

\* C25: within one run each queue position is attempted at most once and the positions
\* are attempted in strictly increasing queue order: an item whose processing failed is
\* never submitted again in the same run, under any interleaving of pause, resume and
\* cancel.  (uploads lists the positions the current run called the upload for.)
C25_EachPositionOnce ==
    /\ StrictlyIncreasing(uploads)
    /\ \A k \in 1..Len(uploads) : uploads[k] \in 0..(Len(Queue) - 1)
    /\ run.pc \in InFlight => (uploads # <<>> /\ uploads[Len(uploads)] = run.i)

\* the first item failed while the run was paused; after the resume the second item,
\* and not the first one again, is in flight
C25_Witness ==
    /\ isScheduling
    /\ ~cancelled
    /\ ~isPaused
    /\ clicks = 3
    /\ run.pc \in InFlight
    /\ run.i = 1
    /\ uploads = <<0, 1>>
    /\ \E k \in 1..Len(schedulingLog) :
          schedulingLog[k].message = "Failed" /\ schedulingLog[k].file = run.queue[1]

\* C26: in the cross-post flow the slot used for queue position i, before the lead-time
\* correction, is element i of the manual allocation for the whole queue: one slot is
\* bound to every queue position, whatever duplicate skips and per-item failures
\* happened at the earlier positions.
C26_SlotBoundToPosition ==
    (page = "crosspost" /\ run.pc \in InFlight) =>
        run.scheduleTime =
            ManualSchedule(schedulerSettings, Len(run.queue), tzOffset)[run.i + 1]

\* a slot of the smart allocator: its hour is one of the five top-ranked hours
SmartSlot(t) == getHours(t) \in {insightHours[k] : k \in 1..TopHours}

\* a slot of the manual allocator for the queue of the run, as allocated or moved to the
\* next day by the lead-time correction
ManualSlot(t) ==
    LET manual == ManualSchedule(schedulerSettings, Len(run.queue), tzOffset)
    IN  \E k \in 1..Len(manual) : t \in {manual[k], addDay(manual[k])}

\* C27: the configured mode selects the allocator in both flows: with
\* smartScheduleEnabled the slots a run dispatches come from the smart allocator,
\* without it from the manual allocator.
C27_ModeSelectsAllocator ==
    run.pc \in InFlight =>
        IF schedulerSettings.smartScheduleEnabled
        THEN SmartSlot(run.slot)
        ELSE ManualSlot(run.slot)

\* the step starts a run: setSchedulingLog([]) empties the log
RunStarts ==
    (HandleSchedulingProcessU \/ HandleSchedulingProcessX) /\ ~isScheduling /\ ~InvalidRequest

\* C28: from the start of a run until the start of the next run, entries are only added
\* at the head of the log: no entry is removed, modified or reordered, so the success
\* entries of the items completed before a fatal abort or a cancellation are still in
\* the log after the run has ended.
C28_LogAppendOnly ==
    [][~RunStarts =>
          /\ LogExtended
          /\ \A k \in 1..Len(SuccessFiles(schedulingLog)) :
                SuccessFiles(schedulingLog')[k] = SuccessFiles(schedulingLog)[k]]_vars

\* the second item failed fatally and the run is over: the success entry of the first
\* item is still in the log, below the failure and the completion entries
C28_Witness ==
    /\ ~isScheduling
    /\ logoutCalls = 1
    /\ uploads = <<0, 1>>
    /\ Len(SuccessFiles(schedulingLog)) = 1
    /\ HasEntry(schedulingLog, IF page = "uploader" THEN FileNames[1] ELSE PostNames[1], {"success"})
    /\ HasEntry(schedulingLog, IF page = "uploader" THEN FileNames[2] ELSE PostNames[2], {"error"})

\* C29: the first timestamp of a manual allocation is exactly startTime on the calendar
\* date startDate in the local time zone, for every UTC offset of the local zone
\* (positive, zero or negative).
C29_FirstSlotOnStartDate ==
    (allocPc = "done" /\ ~schedulerSettings.smartScheduleEnabled /\ run.scheduleTimes # <<>>) =>
        run.scheduleTimes[1] =
            schedulerSettings.startDate * MinutesPerDay + PairMinutes(schedulerSettings.startTime)

\* the positions of the run's queue that were handed to the upload or skipped as
\* duplicates
Attempted(ups) ==
    {ups[k] : k \in 1..Len(ups)}
        \cup {j \in 0..(Len(run.queue) - 1) :
                 historyKey(run.queue[j + 1], run.dest) \in run.history}

\* C30: a cancellation or pause request made before a run starts does not reach that
\* run: every start clears the cancel token and the pause flag, a run in which no cancel
\* is requested and no fatal failure occurs ends only after every position of its queue
\* was attempted (or skipped as a duplicate), and a run with neither flag set does end.
C30_FreshRunUnaffected ==
    /\ [][/\ RunStarts => (~cancelled' /\ ~isPaused' /\ ~isPausedRef')
          /\ (isScheduling /\ ~isScheduling' /\ ~cancelled /\ logoutCalls' = 0
                  /\ run.pc # "generate") =>
                Attempted(uploads') = 0..(Len(run.queue) - 1)]_vars
    /\ (isScheduling /\ ~cancelled /\ ~isPaused) ~> (~isScheduling \/ cancelled \/ isPaused)

\* a run started while the pause switch was on: the flag is cleared and the runner
\* waits for one poll in front of the first item, which it has not attempted yet
C30_Witness ==
    /\ isScheduling
    /\ ~cancelled
    /\ ~isPaused
    /\ ~isPausedRef
    /\ run.pc = "sleep"
    /\ run.i = 0
    /\ uploads = <<>>

====
